---------------------------- MODULE Spec2Model ----------------------------
(***************************************************************************)
(* A model of the bytecode interpreter of src/jvm.c: the function          *)
(* execute(), one action per case of its dispatch switch, the frames of    *)
(* nested invokestatic calls, the heap of int arrays and the printed       *)
(* output.                                                                 *)
(*                                                                         *)
(* Conventions.                                                            *)
(*  - An int32_t is an integer of MinInt..MaxInt.  TLC's integers are 32    *)
(*    bits wide themselves, so the 32-bit operations are computed on       *)
(*    16-bit limbs and never leave that range.                             *)
(*  - pc is a size_t.  The model keeps the signed representative of its    *)
(*    value mod 2^64: a negative pc stands for 2^64 + pc, which is above   *)
(*    every code_length.                                                   *)
(*  - C arrays are functions on 0..n-1; the constant pool, the method      *)
(*    table, the code bytes and the heap are sequences, so the C index i   *)
(*    is the sequence index i + 1.                                         *)
(*  - Behaviour that C leaves undefined and that differs between builds    *)
(*    is a choice over the outcomes: a shift by a count outside 0..31, the *)
(*    division of INT_MIN by -1.  Signed overflow of +, - and * on run     *)
(*    time operands wraps on every two's-complement target and is modelled *)
(*    as wrapping.  An access outside an allocated block ends the run in   *)
(*    status "undefined", which stands for any behaviour whatsoever.       *)
(***************************************************************************)
EXTENDS Integers, Sequences, FiniteSets, TLC

(***************************************************************************)
(* Opcode bytes: the enumeration jvm_instruction_t of jvm.h.               *)
(***************************************************************************)
i_nop == 0
i_iconst_m1 == 2
i_iconst_0 == 3
i_iconst_5 == 8
i_bipush == 16
i_sipush == 17
i_ldc == 18
i_iload == 21
i_aload == 25
i_iload_0 == 26
i_iload_3 == 29
i_aload_0 == 42
i_aload_3 == 45
i_iaload == 46
i_istore == 54
i_astore == 58
i_istore_0 == 59
i_istore_3 == 62
i_astore_0 == 75
i_astore_3 == 78
i_iastore == 79
i_dup == 89
i_iadd == 96
i_isub == 100
i_imul == 104
i_idiv == 108
i_irem == 112
i_ineg == 116
i_ishl == 120
i_ishr == 122
i_iushr == 124
i_iand == 126
i_ior == 128
i_ixor == 130
i_iinc == 132
i_ifeq == 153
i_ifne == 154
i_iflt == 155
i_ifge == 156
i_ifgt == 157
i_ifle == 158
i_if_icmpeq == 159
i_if_icmpne == 160
i_if_icmplt == 161
i_if_icmpge == 162
i_if_icmpgt == 163
i_if_icmple == 164
i_goto == 167
i_ireturn == 172
i_areturn == 176
i_return == 177
i_getstatic == 178
i_invokevirtual == 182
i_invokestatic == 184
i_newarray == 188
i_arraylength == 190

(***************************************************************************)
(* int32_t, int16_t, int8_t.                                               *)
(***************************************************************************)
MaxInt == 2147483647
MinInt == -MaxInt - 1
Int32 == MinInt..MaxInt

\* The two 16-bit limbs of an int32_t, each in 0..65535.
Lo16(a) == a % 65536
Hi16(a) == (a \div 65536) % 65536
\* The int32_t with the limbs hi and lo.
FromLimbs(hi, lo) == (IF hi >= 32768 THEN hi - 65536 ELSE hi) * 65536 + lo

\* (int8_t) byte, for a byte of 0..255.
SignExtend8(byte) == IF byte >= 128 THEN byte - 256 ELSE byte
\* (short) v, for v of 0..65535.
SignExtend16(v) == IF v >= 32768 THEN v - 65536 ELSE v

\* a + b on int32_t: the low 32 bits of the sum.
Add32(a, b) ==
    LET lo == Lo16(a) + Lo16(b)
        hi == Hi16(a) + Hi16(b) + (lo \div 65536)
    IN  FromLimbs(hi % 65536, lo % 65536)

\* -a on int32_t: the low 32 bits of 0 - a (INT_MIN is its own negation).
Neg32(a) == IF a = MinInt THEN MinInt ELSE -a

\* a - b on int32_t: the low 32 bits of the difference.
Sub32(a, b) ==
    LET lo == Lo16(a) - Lo16(b)
        hi == Hi16(a) - Hi16(b) + (lo \div 65536)
    IN  FromLimbs(hi % 65536, lo % 65536)

\* The low and the high 16 bits of x * y, for x and y of 0..65535.
MulLo16(x, y) == ((((x \div 256) * y) % 256) * 256 + (x % 256) * y) % 65536
MulHi16(x, y) ==
    LET t1 == (x \div 256) * y
        t0 == (x % 256) * y
    IN  (t1 \div 256) + (((t1 % 256) * 256 + t0) \div 65536)

\* a * b on int32_t: the low 32 bits of the product.
Mul32(a, b) ==
    LET al == Lo16(a)
        ah == Hi16(a)
        bl == Lo16(b)
        bh == Hi16(b)
    IN  FromLimbs((MulHi16(al, bl) + MulLo16(ah, bl) + MulLo16(al, bh)) % 65536,
                  MulLo16(al, bl))

\* a / b and a % b of C (the quotient truncated toward zero), for b # 0 and
\* not (a = INT_MIN and b = -1).
TruncDivPos(a, m) == IF a >= 0 THEN a \div m ELSE (a + (m - 1)) \div m
TruncDiv(a, b) ==
    IF b = MinInt THEN (IF a = MinInt THEN 1 ELSE 0)
    ELSE IF b > 0 THEN TruncDivPos(a, b)
    ELSE -TruncDivPos(a, -b)
TruncRem(a, b) ==
    IF b = MinInt THEN (IF a = MinInt THEN 0 ELSE a)
    ELSE LET m == IF b > 0 THEN b ELSE -b
         IN  a - TruncDivPos(a, m) * m

\* 2^i for i of 0..30.
Pow2(i) ==
    <<1, 2, 4, 8, 16, 32, 64, 128, 256, 512, 1024, 2048, 4096, 8192, 16384,
      32768, 65536, 131072, 262144, 524288, 1048576, 2097152, 4194304,
      8388608, 16777216, 33554432, 67108864, 134217728, 268435456,
      536870912, 1073741824>>[i + 1]

\* Bit i (of 0..15) of a limb.
Bit(x, i) == (x \div Pow2(i)) % 2

\* The limb whose bit i is table[p + q + 1] for the bits i, p of x and q of
\* y (the operators modelled are symmetric in p and q).
BitOp16(table, x, y) ==
    LET acc[i \in 0..16] ==
            IF i = 0 THEN 0
            ELSE acc[i - 1] + table[Bit(x, i - 1) + Bit(y, i - 1) + 1] * Pow2(i - 1)
    IN  acc[16]
BitOp32(table, a, b) ==
    FromLimbs(BitOp16(table, Hi16(a), Hi16(b)), BitOp16(table, Lo16(a), Lo16(b)))

\* a & b, a | b, a ^ b on int32_t.
And32(a, b) == BitOp32(<<0, 0, 1>>, a, b)
Or32(a, b) == BitOp32(<<0, 1, 1>>, a, b)
Xor32(a, b) == BitOp32(<<0, 1, 0>>, a, b)

\* a << s, a >> s and ((uint32_t) a) >> s for a count s of 0..31: the low
\* 32 bits of a * 2^s, the arithmetic shift, the logical shift.
Shl32(a, s) == Mul32(a, IF s = 31 THEN MinInt ELSE Pow2(s))
Shr32(a, s) == IF s = 31 THEN (IF a < 0 THEN -1 ELSE 0) ELSE a \div Pow2(s)
Ushr32(a, s) ==
    IF s = 0 THEN a
    ELSE IF a >= 0 THEN Shr32(a, s)
    ELSE (((a \div 2) + MaxInt) + 1) \div Pow2(s - 1)

(***************************************************************************)
(* The state.                                                              *)
(***************************************************************************)
VARIABLES
    class,    \* class_file_t: the constant pool and the method table (read only)
    frames,   \* the activations of execute(), the running one last
    heap,     \* heap_t: the arrays added so far, reference r at index r + 1
    out,      \* the integers printed so far
    ret,      \* the optional_value_t an activation has just returned, or NoRet
    status,   \* "running", "exited", "aborted" or "undefined"
    blocks,   \* for every operand stack calloc'ed so far, how often it was freed
    prev      \* history: the step taken last and the state it started from

vars == <<class, frames, heap, out, ret, status, blocks, prev>>

NoRet == [none |-> TRUE]
Void == [has_value |-> FALSE, value |-> 0]
Value(v) == [has_value |-> TRUE, value |-> v]

\* The running activation: its method_t, its code, its operand stack.
Top == frames[Len(frames)]
Method(f) == class.methods[f.method]
Code(f) == Method(f).code
code_length(f) == Len(Code(f))

\* int32_t *operand_stack = calloc(max_stack, sizeof(int32_t)); with a
\* fresh block identity; size_t pc = 0; int32_t stack_idx = 0.
NewFrame(c, m, locals, block) ==
    [method |-> m,
     pc |-> 0,
     operand_stack |-> [i \in 0..(c.methods[m].max_stack - 1) |-> 0],
     stack_block |-> block,
     stack_idx |-> 0,
     locals |-> locals]

\* The state a step starts from, kept for the properties.
StepRecord(step, op) ==
    [step |-> step, op |-> op, frames |-> frames, heap |-> heap, out |-> out,
     ret |-> ret, blocks |-> blocks]
\* The dispatch of opcode byte op.
Snapshot(op) == StepRecord("dispatch", op)
\* A step outside the switch: "exit" (the loop ends), "resume" (a call
\* returns into invokestatic), "main" (execute returns to main).
Outside(step) == StepRecord(step, -1)

\* while (pc < method->code.code_length) with the activation running.
Running == status = "running" /\ ret = NoRet /\ frames # <<>>
InLoop == Running /\ Top.pc >= 0 /\ Top.pc < code_length(Top)
\* switch (method->code.code[pc])
Opcode == Code(Top)[Top.pc + 1]
Dispatch(op) == InLoop /\ Opcode = op
DispatchRange(lo, hi) == InLoop /\ Opcode >= lo /\ Opcode <= hi

\* method->code.code[pc + k], and whether it lies inside the code.
CodeByte(k) == Code(Top)[Top.pc + k + 1]
HasBytes(k) == Top.pc + k < code_length(Top)

\* Whether operand_stack[i] and locals[i] are slots of their blocks.
InStack(i) ==
    /\ i >= 0
    /\ i < Method(Top).max_stack
    /\ blocks[Top.stack_block] = 0
InLocals(i) == i >= 0 /\ i < Method(Top).max_locals
\* operand_stack[stack_idx - i]: operand i from the top, 1 the top.
Operand(i) == Top.operand_stack[Top.stack_idx - i]

\* The ways a step ends: the activation goes on with frame f; the process
\* aborts (a failed assert, a trap); the step made an access outside a block.
Continue(op, f) ==
    /\ frames' = [frames EXCEPT ![Len(frames)] = f]
    /\ prev' = Snapshot(op)
    /\ UNCHANGED <<class, heap, out, ret, status, blocks>>
Abort(op) ==
    /\ status' = "aborted"
    /\ prev' = Snapshot(op)
    /\ UNCHANGED <<class, frames, heap, out, ret, blocks>>
Undefined(op) ==
    /\ status' = "undefined"
    /\ prev' = Snapshot(op)
    /\ UNCHANGED <<class, frames, heap, out, ret, blocks>>

(***************************************************************************)
(* The cases of the switch: constants, printing, arithmetic.               *)
(***************************************************************************)
\* case i_bipush
Bipush ==
    /\ Dispatch(i_bipush)
    /\ IF HasBytes(1) /\ InStack(Top.stack_idx)
       THEN Continue(i_bipush,
                [Top EXCEPT !.operand_stack[Top.stack_idx] = SignExtend8(CodeByte(1)),
                            !.pc = @ + 2,
                            !.stack_idx = @ + 1])
       ELSE Undefined(i_bipush)

\* case i_iadd: stack_idx is lowered first, then the sum of the slots
\* stack_idx and stack_idx - 1 goes to slot stack_idx - 1.
Iadd ==
    /\ Dispatch(i_iadd)
    /\ LET idx == Top.stack_idx - 1
       IN  IF InStack(idx) /\ InStack(idx - 1)
           THEN LET sum == Add32(Top.operand_stack[idx], Top.operand_stack[idx - 1])
                IN  Continue(i_iadd,
                        [Top EXCEPT !.stack_idx = idx,
                                    !.operand_stack[idx - 1] = sum,
                                    !.pc = @ + 1])
           ELSE Undefined(i_iadd)

\* ReturnResult with a fault: the return without free(operand_stack).
ReturnResultLeaks(step, result) ==
    /\ frames' = SubSeq(frames, 1, Len(frames) - 1)
    /\ ret' = result
    /\ prev' = step
    /\ UNCHANGED <<class, heap, out, status, blocks>>

\* free(operand_stack); return result;
ReturnResult(step, result) ==
    /\ blocks' = [blocks EXCEPT ![Top.stack_block] = @ + 1]
    /\ frames' = SubSeq(frames, 1, Len(frames) - 1)
    /\ ret' = result
    /\ prev' = step
    /\ UNCHANGED <<class, heap, out, status>>

\* case i_return
Return ==
    /\ Dispatch(i_return)
    /\ ReturnResult(Snapshot(i_return), Void)

\* Getstatic with a fault: pc advanced past the opcode byte only.
GetstaticShort ==
    /\ Dispatch(i_getstatic)
    /\ Continue(i_getstatic, [Top EXCEPT !.pc = @ + 1])

\* case i_getstatic
Getstatic ==
    /\ Dispatch(i_getstatic)
    /\ Continue(i_getstatic, [Top EXCEPT !.pc = @ + 3])

\* case i_invokevirtual: printf("%d\n", operand_stack[stack_idx])
Invokevirtual ==
    /\ Dispatch(i_invokevirtual)
    /\ LET idx == Top.stack_idx - 1
       IN  IF InStack(idx)
           THEN /\ frames' = [frames EXCEPT ![Len(frames)] =
                                  [Top EXCEPT !.stack_idx = idx, !.pc = @ + 3]]
                /\ out' = Append(out, Top.operand_stack[idx])
                /\ prev' = Snapshot(i_invokevirtual)
                /\ UNCHANGED <<class, heap, ret, status, blocks>>
           ELSE Undefined(i_invokevirtual)

\* case i_iconst_m1 ... i_iconst_5
Iconst ==
    /\ DispatchRange(i_iconst_m1, i_iconst_5)
    /\ IF InStack(Top.stack_idx)
       THEN Continue(Opcode,
                [Top EXCEPT !.operand_stack[Top.stack_idx] = Opcode - i_iconst_0,
                            !.stack_idx = @ + 1,
                            !.pc = @ + 1])
       ELSE Undefined(Opcode)

\* Sipush with a fault: the low byte sign-extended on its own before the
\* or, as int8_t b2 would be.
SipushLowByteSigned ==
    /\ Dispatch(i_sipush)
    /\ IF HasBytes(2) /\ InStack(Top.stack_idx)
       THEN Continue(i_sipush,
                [Top EXCEPT !.operand_stack[Top.stack_idx] =
                                SignExtend16(Or32(CodeByte(1) * 256,
                                                  SignExtend8(CodeByte(2)) % 65536)),
                            !.stack_idx = @ + 1,
                            !.pc = @ + 3])
       ELSE Undefined(i_sipush)

\* case i_sipush: (short) (code[pc + 1] << 8 | code[pc + 2])
Sipush ==
    /\ Dispatch(i_sipush)
    /\ IF HasBytes(2) /\ InStack(Top.stack_idx)
       THEN Continue(i_sipush,
                [Top EXCEPT !.operand_stack[Top.stack_idx] =
                                SignExtend16(Or32(CodeByte(1) * 256, CodeByte(2))),
                            !.stack_idx = @ + 1,
                            !.pc = @ + 3])
       ELSE Undefined(i_sipush)

\* The shape of isub, imul, iand, ior, ixor: stack_idx is lowered, then
\* slot stack_idx - 1 becomes result, the operator's value on the slots
\* stack_idx - 1 and stack_idx.
Binary(op, result) ==
    /\ Dispatch(op)
    /\ LET idx == Top.stack_idx - 1
       IN  IF InStack(idx) /\ InStack(idx - 1)
           THEN Continue(op,
                    [Top EXCEPT !.stack_idx = idx,
                                !.operand_stack[idx - 1] = result,
                                !.pc = @ + 1])
           ELSE Undefined(op)

\* Isub with a fault: the operands taken in the other order, b - a.
IsubReversed == Binary(i_isub, Sub32(Operand(1), Operand(2)))
\* case i_isub
Isub == Binary(i_isub, Sub32(Operand(2), Operand(1)))
\* case i_imul
Imul == Binary(i_imul, Mul32(Operand(2), Operand(1)))

\* What a / b and a % b produce for b # 0.  INT_MIN / -1 and INT_MIN % -1
\* overflow: the division instruction traps on some targets (Trap) and
\* yields the wrapped result on others.
Trap == [trap |-> TRUE, value |-> 0]
Result(v) == [trap |-> FALSE, value |-> v]
DivOutcomes(a, b) ==
    IF a = MinInt /\ b = -1 THEN {Trap, Result(MinInt)} ELSE {Result(TruncDiv(a, b))}
RemOutcomes(a, b) ==
    IF a = MinInt /\ b = -1 THEN {Trap, Result(0)} ELSE {Result(TruncRem(a, b))}

\* The shape of idiv and irem: assert(operand_stack[stack_idx - 1] != 0),
\* then as Binary, with one of outcomes, what the operator may produce.
Division(op, outcomes) ==
    /\ Dispatch(op)
    /\ LET idx == Top.stack_idx - 1
       IN  IF ~InStack(idx)
           THEN Undefined(op)
           ELSE IF Top.operand_stack[idx] = 0
           THEN Abort(op)
           ELSE IF ~InStack(idx - 1)
           THEN Undefined(op)
           ELSE \E r \in outcomes :
                    IF r.trap
                    THEN Abort(op)
                    ELSE Continue(op,
                             [Top EXCEPT !.stack_idx = idx,
                                         !.operand_stack[idx - 1] = r.value,
                                         !.pc = @ + 1])

\* case i_idiv
Idiv == Division(i_idiv, DivOutcomes(Operand(2), Operand(1)))
\* case i_irem
Irem == Division(i_irem, RemOutcomes(Operand(2), Operand(1)))

\* case i_ineg
Ineg ==
    /\ Dispatch(i_ineg)
    /\ LET idx == Top.stack_idx - 1
       IN  IF InStack(idx)
           THEN Continue(i_ineg,
                    [Top EXCEPT !.operand_stack[idx] = Neg32(Top.operand_stack[idx]),
                                !.pc = @ + 1])
           ELSE Undefined(i_ineg)

\* What a << b, a >> b and ((uint32_t) a) >> b produce.  C defines the
\* shift only for a count of 0..31.  For any other count the shift
\* instruction decides: it takes the count mod 32 on some targets, and on
\* others the count's low byte, shifting every bit out when that is above 31.
ShiftCounts(b) == IF b % 256 >= 32 THEN {b % 32, 32} ELSE {b % 32}
ShlOutcomes(a, b) ==
    IF b >= 0 /\ b <= 31 THEN {Shl32(a, b)}
    ELSE {IF c = 32 THEN 0 ELSE Shl32(a, c) : c \in ShiftCounts(b)}
ShrOutcomes(a, b) ==
    IF b >= 0 /\ b <= 31 THEN {Shr32(a, b)}
    ELSE {IF c = 32 THEN Shr32(a, 31) ELSE Shr32(a, c) : c \in ShiftCounts(b)}
UshrOutcomes(a, b) ==
    IF b >= 0 /\ b <= 31 THEN {Ushr32(a, b)}
    ELSE {IF c = 32 THEN 0 ELSE Ushr32(a, c) : c \in ShiftCounts(b)}

\* The shape of ishl, ishr, iushr: as Binary, the count not masked, with
\* one of outcomes, what the operator may produce.
Shift(op, outcomes) ==
    /\ Dispatch(op)
    /\ LET idx == Top.stack_idx - 1
       IN  IF InStack(idx) /\ InStack(idx - 1)
           THEN \E r \in outcomes :
                    Continue(op,
                        [Top EXCEPT !.stack_idx = idx,
                                    !.operand_stack[idx - 1] = r,
                                    !.pc = @ + 1])
           ELSE Undefined(op)

\* case i_ishl
Ishl == Shift(i_ishl, ShlOutcomes(Operand(2), Operand(1)))
\* case i_ishr
Ishr == Shift(i_ishr, ShrOutcomes(Operand(2), Operand(1)))
\* case i_iushr
Iushr == Shift(i_iushr, UshrOutcomes(Operand(2), Operand(1)))
\* case i_iand
Iand == Binary(i_iand, And32(Operand(2), Operand(1)))
\* case i_ior
Ior == Binary(i_ior, Or32(Operand(2), Operand(1)))
\* case i_ixor
Ixor == Binary(i_ixor, Xor32(Operand(2), Operand(1)))

(***************************************************************************)
(* Locals and the constant pool.                                           *)
(***************************************************************************)
\* The shape of iload, aload, iload_<n>, aload_<n>: push locals[n]; the
\* opcode is len bytes long.
Load(op, n, len) ==
    IF HasBytes(len - 1) /\ InLocals(n) /\ InStack(Top.stack_idx)
    THEN Continue(op,
             [Top EXCEPT !.operand_stack[Top.stack_idx] = Top.locals[n],
                         !.stack_idx = @ + 1,
                         !.pc = @ + len])
    ELSE Undefined(op)

\* The shape of istore, astore, istore_<n>, astore_<n>: pop into locals[n].
Store(op, n, len) ==
    LET idx == Top.stack_idx - 1
    IN  IF HasBytes(len - 1) /\ InLocals(n) /\ InStack(idx)
        THEN Continue(op,
                 [Top EXCEPT !.stack_idx = idx,
                             !.locals[n] = Top.operand_stack[idx],
                             !.pc = @ + len])
        ELSE Undefined(op)

\* The local index of a two-byte load or store: code[pc + 1].
LocalOperand == IF HasBytes(1) THEN CodeByte(1) ELSE 0

\* case i_iload
Iload == Dispatch(i_iload) /\ Load(i_iload, LocalOperand, 2)
\* case i_iload_0 ... i_iload_3
Iload_n == DispatchRange(i_iload_0, i_iload_3) /\ Load(Opcode, Opcode - i_iload_0, 1)
\* case i_istore
Istore == Dispatch(i_istore) /\ Store(i_istore, LocalOperand, 2)
\* case i_istore_0 ... i_istore_3
Istore_n == DispatchRange(i_istore_0, i_istore_3) /\ Store(Opcode, Opcode - i_istore_0, 1)
\* case i_aload
Aload == Dispatch(i_aload) /\ Load(i_aload, LocalOperand, 2)
\* case i_astore
Astore == Dispatch(i_astore) /\ Store(i_astore, LocalOperand, 2)
\* case i_aload_0 ... i_aload_3
Aload_n == DispatchRange(i_aload_0, i_aload_3) /\ Load(Opcode, Opcode - i_aload_0, 1)
\* case i_astore_0 ... i_astore_3
Astore_n == DispatchRange(i_astore_0, i_astore_3) /\ Store(Opcode, Opcode - i_astore_0, 1)

\* case i_iinc: locals[code[pc + 1]] += (int8_t) code[pc + 2]
Iinc ==
    /\ Dispatch(i_iinc)
    /\ IF HasBytes(2) /\ InLocals(LocalOperand)
       THEN Continue(i_iinc,
                [Top EXCEPT !.locals[CodeByte(1)] = Add32(@, SignExtend8(CodeByte(2))),
                            !.pc = @ + 3])
       ELSE Undefined(i_iinc)

\* case i_ldc: constant_pool[code[pc + 1] - 1], read as a CONSTANT_Integer_info
Ldc ==
    /\ Dispatch(i_ldc)
    /\ LET const_idx == CodeByte(1) - 1
       IN  IF /\ HasBytes(1)
              /\ const_idx >= 0
              /\ const_idx < Len(class.constant_pool)
              /\ class.constant_pool[const_idx + 1].tag = "Integer"
              /\ InStack(Top.stack_idx)
           THEN Continue(i_ldc,
                    [Top EXCEPT !.operand_stack[Top.stack_idx] =
                                    class.constant_pool[const_idx + 1].bytes,
                                !.stack_idx = @ + 1,
                                !.pc = @ + 2])
           ELSE Undefined(i_ldc)

(***************************************************************************)
(* Branches.                                                               *)
(***************************************************************************)
\* int16_t b1 = code[pc + 1]; int8_t b2 = code[pc + 2]; (b1 << 8) | b2
\* as an int: b1 is 0..255, b2 is sign-extended from 8 bits before the or.
BranchOffset(b1, b2) == Or32(b1 * 256, SignExtend8(b2))

\* pc += (b1 << 8) | b2
Jump(f) == [f EXCEPT !.pc = @ + BranchOffset(CodeByte(1), CodeByte(2))]

\* The shape of ifeq ... ifle: the branch is decided on slot stack_idx - 1
\* (taken: the opcode's test of it), then stack_idx is lowered by one.
IfZero(op, taken) ==
    /\ Dispatch(op)
    /\ LET idx == Top.stack_idx - 1
       IN  IF ~InStack(idx)
           THEN Undefined(op)
           ELSE IF taken
           THEN IF HasBytes(2)
                THEN Continue(op, [Jump(Top) EXCEPT !.stack_idx = idx])
                ELSE Undefined(op)
           ELSE Continue(op, [Top EXCEPT !.pc = @ + 3, !.stack_idx = idx])

\* The shape of if_icmpeq ... if_icmple: decided on the slots stack_idx - 2
\* and stack_idx - 1 (taken: the opcode's test of them), then stack_idx is
\* lowered by two.
IfCmp(op, taken) ==
    /\ Dispatch(op)
    /\ LET idx == Top.stack_idx - 2
       IN  IF ~(InStack(idx) /\ InStack(idx + 1))
           THEN Undefined(op)
           ELSE IF taken
           THEN IF HasBytes(2)
                THEN Continue(op, [Jump(Top) EXCEPT !.stack_idx = idx])
                ELSE Undefined(op)
           ELSE Continue(op, [Top EXCEPT !.pc = @ + 3, !.stack_idx = idx])

\* case i_ifeq ... case i_ifle
Ifeq == IfZero(i_ifeq, Operand(1) = 0)
Ifne == IfZero(i_ifne, Operand(1) # 0)
Iflt == IfZero(i_iflt, Operand(1) < 0)
Ifge == IfZero(i_ifge, Operand(1) >= 0)
Ifgt == IfZero(i_ifgt, Operand(1) > 0)
Ifle == IfZero(i_ifle, Operand(1) <= 0)
\* If_icmplt with a fault: the operands compared in the other order.
If_icmpltSwapped == IfCmp(i_if_icmplt, Operand(1) < Operand(2))
\* case i_if_icmpeq ... case i_if_icmple
If_icmpeq == IfCmp(i_if_icmpeq, Operand(2) = Operand(1))
If_icmpne == IfCmp(i_if_icmpne, Operand(2) # Operand(1))
If_icmplt == IfCmp(i_if_icmplt, Operand(2) < Operand(1))
If_icmpge == IfCmp(i_if_icmpge, Operand(2) >= Operand(1))
If_icmpgt == IfCmp(i_if_icmpgt, Operand(2) > Operand(1))
If_icmple == IfCmp(i_if_icmple, Operand(2) <= Operand(1))

\* case i_goto
Goto ==
    /\ Dispatch(i_goto)
    /\ IF HasBytes(2) THEN Continue(i_goto, Jump(Top)) ELSE Undefined(i_goto)

(***************************************************************************)
(* Calls and returns.                                                      *)
(***************************************************************************)
\* case i_ireturn and case i_areturn: the same statements.
ValueReturn(op) ==
    /\ Dispatch(op)
    /\ LET idx == Top.stack_idx - 1
       IN  IF InStack(idx)
           THEN ReturnResult(Snapshot(op), Value(Top.operand_stack[idx]))
           ELSE Undefined(op)

\* Ireturn with a fault: the method returns as return does, without a value.
IreturnVoid ==
    /\ Dispatch(i_ireturn)
    /\ ReturnResult(Snapshot(i_ireturn), Void)

\* case i_ireturn
Ireturn == ValueReturn(i_ireturn)
\* case i_areturn
Areturn == ValueReturn(i_areturn)

\* find_method_from_index(index, class): the method that the method
\* reference at constant pool index `index` (counted from 1) names.
HasMethodAt(index) ==
    /\ index >= 1
    /\ index <= Len(class.constant_pool)
    /\ class.constant_pool[index].tag = "MethodRef"
find_method_from_index(index) == class.constant_pool[index].method

\* get_number_of_parameters(method): the arity its descriptor states.
get_number_of_parameters(m) == class.methods[m].num_params

\* CalleeLocals with a fault: the arguments placed in the order they are
\* popped.
CalleeLocalsReversed(m, f) ==
    LET num_params == get_number_of_parameters(m)
    IN  [i \in 0..(class.methods[m].max_locals - 1) |->
            IF i < num_params
            THEN f.operand_stack[f.stack_idx - 1 - i]
            ELSE 0]

\* int32_t *callee_locals = calloc(sizeof(int32_t), max_locals); then
\* for (i = num_params - 1; i >= 0; i--) callee_locals[i] = pop.
CalleeLocals(m, f) ==
    LET num_params == get_number_of_parameters(m)
    IN  [i \in 0..(class.methods[m].max_locals - 1) |->
            IF i < num_params
            THEN f.operand_stack[f.stack_idx - (num_params - i)]
            ELSE 0]

\* Invokestatic with a fault: the arguments are put into the caller's own
\* locals array, which is handed to the callee.
InvokestaticSharedLocals ==
    /\ Dispatch(i_invokestatic)
    /\ LET index == BranchOffset(CodeByte(1), CodeByte(2))
       IN  IF ~(HasBytes(2) /\ HasMethodAt(index))
           THEN Undefined(i_invokestatic)
           ELSE LET callee_method == find_method_from_index(index)
                    num_params == get_number_of_parameters(callee_method)
                    shared == [i \in DOMAIN Top.locals |->
                                  IF i < num_params
                                  THEN Top.operand_stack[Top.stack_idx - (num_params - i)]
                                  ELSE Top.locals[i]]
                IN  IF \/ num_params > class.methods[callee_method].max_locals
                       \/ \E k \in 1..num_params : ~InStack(Top.stack_idx - k)
                    THEN Undefined(i_invokestatic)
                    ELSE /\ frames' =
                                Append([frames EXCEPT ![Len(frames)] =
                                            [Top EXCEPT !.stack_idx = @ - num_params,
                                                        !.locals = shared]],
                                       NewFrame(class, callee_method,
                                                CalleeLocals(callee_method, Top),
                                                Len(blocks) + 1))
                         /\ blocks' = Append(blocks, 0)
                         /\ prev' = Snapshot(i_invokestatic)
                         /\ UNCHANGED <<class, heap, out, ret, status>>

\* case i_invokestatic, up to the call of execute(): the caller keeps its
\* pc at the opcode and its stack_idx below the arguments.
Invokestatic ==
    /\ Dispatch(i_invokestatic)
    /\ LET index == BranchOffset(CodeByte(1), CodeByte(2))
       IN  IF ~(HasBytes(2) /\ HasMethodAt(index))
           THEN Undefined(i_invokestatic)
           ELSE LET callee_method == find_method_from_index(index)
                    num_params == get_number_of_parameters(callee_method)
                IN  IF \/ num_params > class.methods[callee_method].max_locals
                       \/ \E k \in 1..num_params : ~InStack(Top.stack_idx - k)
                    THEN Undefined(i_invokestatic)
                    ELSE /\ frames' =
                                Append([frames EXCEPT ![Len(frames)] =
                                            [Top EXCEPT !.stack_idx = @ - num_params]],
                                       NewFrame(class, callee_method,
                                                CalleeLocals(callee_method, Top),
                                                Len(blocks) + 1))
                         /\ blocks' = Append(blocks, 0)
                         /\ prev' = Snapshot(i_invokestatic)
                         /\ UNCHANGED <<class, heap, out, ret, status>>

\* InvokestaticReturn with a fault: the returned value is not pushed.
InvokestaticReturnDropsValue ==
    /\ status = "running"
    /\ ret # NoRet
    /\ frames # <<>>
    /\ frames' = [frames EXCEPT ![Len(frames)] = [Top EXCEPT !.pc = @ + 3]]
    /\ ret' = NoRet
    /\ prev' = Outside("resume")
    /\ UNCHANGED <<class, heap, out, blocks, status>>

\* case i_invokestatic, from the return of execute(): free(callee_locals);
\* if (ret.has_value) push ret.value; pc += 3.
InvokestaticReturn ==
    /\ status = "running"
    /\ ret # NoRet
    /\ frames # <<>>
    /\ IF ret.has_value /\ ~InStack(Top.stack_idx)
       THEN /\ status' = "undefined"
            /\ UNCHANGED <<frames, ret>>
       ELSE /\ frames' = [frames EXCEPT ![Len(frames)] =
                             IF ret.has_value
                             THEN [Top EXCEPT !.operand_stack[Top.stack_idx] = ret.value,
                                              !.stack_idx = @ + 1,
                                              !.pc = @ + 3]
                             ELSE [Top EXCEPT !.pc = @ + 3]]
            /\ ret' = NoRet
            /\ UNCHANGED status
    /\ prev' = Outside("resume")
    /\ UNCHANGED <<class, heap, out, blocks>>

\* LoopExit with a fault: the value on top of the operand stack, if there is
\* one, is returned.
LoopExitReturnsTop ==
    /\ Running
    /\ ~InLoop
    /\ ReturnResult(Outside("exit"),
                    IF Top.stack_idx > 0 THEN Value(Operand(1)) ELSE Void)

\* The end of the loop: pc >= code_length; free(operand_stack); return void.
LoopExit ==
    /\ Running
    /\ ~InLoop
    /\ ReturnResult(Outside("exit"), Void)

\* main(), after execute(main_method, ...) returned:
\* assert(!result.has_value && "main() should return void").
MainReturn ==
    /\ status = "running"
    /\ ret # NoRet
    /\ frames = <<>>
    /\ status' = IF ret.has_value THEN "aborted" ELSE "exited"
    /\ prev' = Outside("main")
    /\ UNCHANGED <<class, frames, heap, out, ret, blocks>>

(***************************************************************************)
(* nop, dup, arrays.                                                       *)
(***************************************************************************)
\* case i_nop
Nop ==
    /\ Dispatch(i_nop)
    /\ Continue(i_nop, [Top EXCEPT !.pc = @ + 1])

\* case i_dup
Dup ==
    /\ Dispatch(i_dup)
    /\ IF InStack(Top.stack_idx) /\ InStack(Top.stack_idx - 1)
       THEN Continue(i_dup,
                [Top EXCEPT !.operand_stack[Top.stack_idx] =
                                Top.operand_stack[Top.stack_idx - 1],
                            !.stack_idx = @ + 1,
                            !.pc = @ + 1])
       ELSE Undefined(i_dup)

\* heap_add(heap, array): the array is appended; its reference is its index,
\* counted from 0.  heap_get(heap, ref): the array added under ref.
heap_add(h, array) == Append(h, array)
heap_ref(h) == Len(h)
IsRef(h, ref) == ref >= 0 /\ ref < Len(h)
heap_get(h, ref) == h[ref + 1]

\* calloc(sizeof(int32_t), count + 1); array[0] = count; array[i] = 0.
NewArray(count) == [i \in 0..count |-> IF i = 0 THEN count ELSE 0]

\* case i_newarray
Newarray ==
    /\ Dispatch(i_newarray)
    /\ LET idx == Top.stack_idx - 1
       IN  IF InStack(idx) /\ Top.operand_stack[idx] >= 0
           THEN /\ heap' = heap_add(heap, NewArray(Top.operand_stack[idx]))
                /\ frames' = [frames EXCEPT ![Len(frames)] =
                                  [Top EXCEPT !.operand_stack[idx] = heap_ref(heap),
                                              !.pc = @ + 2]]
                /\ prev' = Snapshot(i_newarray)
                /\ UNCHANGED <<class, out, ret, status, blocks>>
           ELSE Undefined(i_newarray)

\* case i_arraylength
Arraylength ==
    /\ Dispatch(i_arraylength)
    /\ LET idx == Top.stack_idx - 1
       IN  IF InStack(idx) /\ IsRef(heap, Top.operand_stack[idx])
           THEN Continue(i_arraylength,
                    [Top EXCEPT !.operand_stack[idx] =
                                    heap_get(heap, Top.operand_stack[idx])[0],
                                !.pc = @ + 1])
           ELSE Undefined(i_arraylength)

\* Whether array[slot] lies inside the block calloc'ed for the array.
InArray(array, slot) == slot \in DOMAIN array

\* case i_iastore: heap_get(heap, slot sp-3)[slot sp-2 + 1] = slot sp-1
Iastore ==
    /\ Dispatch(i_iastore)
    /\ LET idx == Top.stack_idx
       IN  IF /\ InStack(idx - 3)
              /\ InStack(idx - 1)
              /\ IsRef(heap, Top.operand_stack[idx - 3])
              /\ InArray(heap_get(heap, Top.operand_stack[idx - 3]),
                         Add32(Top.operand_stack[idx - 2], 1))
           THEN /\ heap' = [heap EXCEPT ![Top.operand_stack[idx - 3] + 1]
                                            [Add32(Top.operand_stack[idx - 2], 1)] =
                                      Top.operand_stack[idx - 1]]
                /\ frames' = [frames EXCEPT ![Len(frames)] =
                                  [Top EXCEPT !.stack_idx = idx - 3, !.pc = @ + 1]]
                /\ prev' = Snapshot(i_iastore)
                /\ UNCHANGED <<class, out, ret, status, blocks>>
           ELSE Undefined(i_iastore)

\* Iaload with a fault: the element read at slot index, not index + 1.
IaloadUnshifted ==
    /\ Dispatch(i_iaload)
    /\ LET idx == Top.stack_idx - 1
       IN  IF /\ InStack(idx)
              /\ InStack(idx - 1)
              /\ IsRef(heap, Top.operand_stack[idx - 1])
              /\ InArray(heap_get(heap, Top.operand_stack[idx - 1]),
                         Top.operand_stack[idx])
           THEN Continue(i_iaload,
                    [Top EXCEPT !.stack_idx = idx,
                                !.operand_stack[idx - 1] =
                                    heap_get(heap, Top.operand_stack[idx - 1])
                                        [Top.operand_stack[idx]],
                                !.pc = @ + 1])
           ELSE Undefined(i_iaload)

\* case i_iaload: stack_idx is lowered, then slot stack_idx - 1 becomes
\* heap_get(heap, slot stack_idx - 1)[slot stack_idx + 1]
Iaload ==
    /\ Dispatch(i_iaload)
    /\ LET idx == Top.stack_idx - 1
       IN  IF /\ InStack(idx)
              /\ InStack(idx - 1)
              /\ IsRef(heap, Top.operand_stack[idx - 1])
              /\ InArray(heap_get(heap, Top.operand_stack[idx - 1]),
                         Add32(Top.operand_stack[idx], 1))
           THEN Continue(i_iaload,
                    [Top EXCEPT !.stack_idx = idx,
                                !.operand_stack[idx - 1] =
                                    heap_get(heap, Top.operand_stack[idx - 1])
                                        [Add32(Top.operand_stack[idx], 1)],
                                !.pc = @ + 1])
           ELSE Undefined(i_iaload)

(***************************************************************************)
(* An opcode byte that no case of the switch names.                        *)
(***************************************************************************)
SupportedOpcodes ==
    {i_bipush, i_iadd, i_return, i_getstatic, i_invokevirtual, i_sipush,
     i_isub, i_imul, i_idiv, i_irem, i_ineg, i_ishl, i_ishr, i_iushr, i_iand,
     i_ior, i_ixor, i_iload, i_istore, i_iinc, i_ldc, i_ifeq, i_ifne, i_iflt,
     i_ifge, i_ifgt, i_ifle, i_if_icmpeq, i_if_icmpne, i_if_icmplt,
     i_if_icmpge, i_if_icmpgt, i_if_icmple, i_goto, i_ireturn,
     i_invokestatic, i_nop, i_dup, i_newarray, i_arraylength, i_areturn,
     i_iastore, i_iaload, i_aload, i_astore}
        \cup (i_iconst_m1..i_iconst_5) \cup (i_iload_0..i_iload_3)
        \cup (i_istore_0..i_istore_3) \cup (i_aload_0..i_aload_3)
        \cup (i_astore_0..i_astore_3)

\* The switch has no default: no statement runs, and the loop tests
\* pc < code_length again with pc unchanged.
UnknownOpcode ==
    /\ InLoop
    /\ Opcode \notin SupportedOpcodes
    /\ prev' = Snapshot(Opcode)
    /\ UNCHANGED <<class, frames, heap, out, ret, status, blocks>>

(***************************************************************************)
(* The classes the model runs: what get_class() may hand to main().        *)
(***************************************************************************)
\* Bounds of the families of classes below.
SmallBound == 2       \* operands range over -SmallBound..SmallBound and edge values
MaxPrefix == 1        \* nops in front of a branch program
MaxArrayLen == 2      \* lengths given to newarray
MaxParams == 2        \* parameters of an invoked method
MaxFact == 6          \* arguments given to the recursive factorial

\* cp_info entries and method_t.
IntegerInfo(v) == [tag |-> "Integer", bytes |-> v, method |-> 0]
MethodRef(m) == [tag |-> "MethodRef", bytes |-> 0, method |-> m]
Meth(code, max_stack, max_locals, num_params) ==
    [code |-> code, max_stack |-> max_stack, max_locals |-> max_locals,
     num_params |-> num_params]
\* main is the first method of the table.
ClassFile(constant_pool, methods) ==
    [constant_pool |-> constant_pool, methods |-> methods]
MainMethod == 1

Nops(n) == [i \in 1..n |-> i_nop]
Println == <<i_invokevirtual, 0, 0>>

ArithValues == (-SmallBound..SmallBound) \cup {MinInt, MaxInt, 31, 32, 33, 256, 65536}
BinaryOpcodes ==
    {i_iadd, i_isub, i_imul, i_idiv, i_irem, i_ishl, i_ishr, i_iushr, i_iand,
     i_ior, i_ixor}
\* ldc a; ldc b; <op>; println; return
ArithClasses ==
    {ClassFile(<<IntegerInfo(a), IntegerInfo(b)>>,
               <<Meth(<<i_ldc, 1, i_ldc, 2, op>> \o Println \o <<i_return>>, 2, 1, 1)>>) :
        op \in BinaryOpcodes, a \in ArithValues, b \in ArithValues}
\* ldc a; ineg; println; return
NegClasses ==
    {ClassFile(<<IntegerInfo(a)>>,
               <<Meth(<<i_ldc, 1, i_ineg>> \o Println \o <<i_return>>, 1, 1, 1)>>) :
        a \in ArithValues}

\* Branch programs: nops, the operands, the branch at address p with operand
\* bytes b1 b2, then two printing blocks at p + 3 and p + 8.
OffsetHigh == {0, 1, 128, 255}
OffsetLow == {0, 3, 8, 127, 128, 253}
CmpValues == {MinInt, 0, 1}
IfZeroOpcodes == {i_ifeq, i_ifne, i_iflt, i_ifge, i_ifgt, i_ifle}
IfCmpOpcodes ==
    {i_if_icmpeq, i_if_icmpne, i_if_icmplt, i_if_icmpge, i_if_icmpgt, i_if_icmple}
BranchTail ==
    <<i_iconst_0 + 1>> \o Println \o <<i_return, i_iconst_0 + 2>> \o Println \o <<i_return>>
BranchClass(pre, pushes, op, b1, b2, pool) ==
    ClassFile(pool,
              <<Meth(Nops(pre) \o pushes \o <<op, b1, b2>> \o BranchTail, 2, 1, 1)>>)
GotoClasses ==
    {BranchClass(pre, <<>>, i_goto, b1, b2, <<>>) :
        pre \in 0..MaxPrefix, b1 \in OffsetHigh, b2 \in OffsetLow}
IfZeroClasses ==
    UNION {{BranchClass(pre, <<i_ldc, 1>>, op, b1, b2, <<IntegerInfo(a)>>) :
                pre \in 0..MaxPrefix, b1 \in OffsetHigh, b2 \in OffsetLow} :
            op \in IfZeroOpcodes, a \in CmpValues}
IfCmpClasses ==
    UNION {{BranchClass(pre, <<i_ldc, 1, i_ldc, 2>>, op, b1, b2,
                        <<IntegerInfo(a), IntegerInfo(b)>>) :
                pre \in 0..MaxPrefix, b1 \in OffsetHigh, b2 \in OffsetLow} :
            op \in IfCmpOpcodes, a \in CmpValues, b \in CmpValues}

\* Immediate operands and local indices; max_locals is 4, so index 4 is
\* outside the locals.
ImmBytes == {0, 1, 127, 128, 255}
LocalIndexes == 0..4
LocalsClasses ==
    {ClassFile(<<>>,
               <<Meth(<<i_bipush, x, i_istore, n, i_iinc, n, c, i_iload, n>>
                          \o Println \o <<i_return>>, 1, 4, 1)>>) :
        x \in ImmBytes, c \in ImmBytes, n \in LocalIndexes}
SipushClasses ==
    {ClassFile(<<>>,
               <<Meth(<<i_sipush, b1, b2, i_astore, n, i_aload, n>>
                          \o Println \o <<i_return>>, 1, 4, 1)>>) :
        b1 \in ImmBytes, b2 \in ImmBytes, n \in LocalIndexes}
ShortFormClasses ==
    {ClassFile(<<>>,
               <<Meth(<<k, i_dup, i_istore_0 + n, i_astore_0 + (3 - n),
                        i_iload_0 + n, i_aload_0 + (3 - n), i_getstatic, 0, 0,
                        i_iadd>> \o Println \o <<i_nop, i_return>>, 2, 4, 1)>>) :
        k \in i_iconst_m1..i_iconst_5, n \in 0..3}

\* Two arrays r1 (length n) and r2 (length 1); r2[0] = 9; r1[idx] = val;
\* then r1[idx2], the length of r1, r2[0] and the length of r2 are printed.
StoreValues == {0, 7, MinInt}
ArrayCode(n) ==
    <<i_bipush, n, i_newarray, 10, i_astore_0 + 1,
      i_iconst_0 + 1, i_newarray, 10, i_astore_0 + 2,
      i_aload_0 + 2, i_iconst_0, i_bipush, 9, i_iastore,
      i_aload_0 + 1, i_ldc, 1, i_ldc, 2, i_iastore,
      i_aload_0 + 1, i_ldc, 3, i_iaload>> \o Println \o
    <<i_aload_0 + 1, i_arraylength>> \o Println \o
    <<i_aload_0 + 2, i_iconst_0, i_iaload>> \o Println \o
    <<i_aload_0 + 2, i_arraylength>> \o Println \o <<i_return>>
ArrayClasses ==
    UNION {{ClassFile(<<IntegerInfo(idx), IntegerInfo(val), IntegerInfo(idx2)>>,
                      <<Meth(ArrayCode(n), 3, 3, 1)>>) :
                idx \in -1..n, idx2 \in -1..n, val \in StoreValues} :
            n \in 0..MaxArrayLen}

\* Calls.  main pushes 9 and the k arguments, invokes method 2 through the
\* constant pool entry k + 1, prints what came back (if anything) and the 9.
ArgValues == {-1, 0, 5}
LoadArgs(k) == [j \in 1..(2 * k) |-> IF j % 2 = 1 THEN i_ldc ELSE j \div 2]
CallerCode(k, returns) ==
    <<i_bipush, 9>> \o LoadArgs(k) \o <<i_invokestatic, 0, k + 1>>
        \o (IF returns THEN Println ELSE <<>>) \o Println \o <<i_return>>
\* Callees with k parameters and one more local.
\* "void": prints the extra local, overwrites it, returns.
VoidCode(k) == <<i_iload, k>> \o Println \o <<i_bipush, 77, i_istore, k, i_return>>
\* "int": returns ((p0 - p1) - p2) ..., or 42 without parameters.
IntCode(k) ==
    IF k = 0 THEN <<i_bipush, 42, i_ireturn>>
    ELSE [j \in 1..(2 * k - 1) |->
             IF j = 1 THEN i_iload_0
             ELSE IF j % 2 = 0 THEN i_iload_0 + (j \div 2) ELSE i_isub]
         \o <<i_ireturn>>
\* "ref": returns a new array of length 2.
RefCode == <<i_iconst_0 + 2, i_newarray, 10, i_areturn>>
\* "end": runs off the end of its code with a value left on its stack.
EndCode == <<i_iconst_0 + 1>>
\* "nested": passes its parameters on to method 3 and returns its result.
PassArgs(k) == [j \in 1..k |-> i_iload_0 + (j - 1)]
NestedCode(k) == PassArgs(k) \o <<i_invokestatic, 0, k + 2, i_ireturn>>
CalleeKinds == {"void", "int", "ref", "end", "nested"}
CalleeCode(kind, k) ==
    CASE kind = "void" -> VoidCode(k)
      [] kind = "int" -> IntCode(k)
      [] kind = "ref" -> RefCode
      [] kind = "end" -> EndCode
      [] kind = "nested" -> NestedCode(k)
CallClass(kind, args) ==
    LET k == Len(args)
    IN  ClassFile([j \in 1..k |-> IntegerInfo(args[j])]
                      \o <<MethodRef(2), MethodRef(3)>>,
                  <<Meth(CallerCode(k, kind \in {"int", "ref", "nested"}), k + 1, 1, 1),
                    Meth(CalleeCode(kind, k), k + 1, k + 1, k),
                    Meth(IntCode(k), k + 1, k + 1, k)>>)
ArgLists == UNION {[1..k -> ArgValues] : k \in 0..MaxParams}
CallClasses == {CallClass(kind, args) : kind \in CalleeKinds, args \in ArgLists}

\* Programs outside what a compiler emits: an opcode byte the switch does
\* not name, code without a return, main returning a value, operand stack
\* misuse, an operand byte missing.
UnknownBytes == {1, 202, 255}
OddCodes ==
    {<<i_iconst_0 + 1, op, i_return>> : op \in UnknownBytes}
        \cup {<<>>, <<i_nop>>, <<i_iconst_0 + 1>>, <<i_iconst_0 + 1, i_ireturn>>,
              <<i_iadd, i_return>>, <<i_iconst_0 + 1, i_iconst_0 + 1, i_return>>,
              <<i_bipush>>}
OddClasses == {ClassFile(<<>>, <<Meth(code, 1, 1, 1)>>) : code \in OddCodes}

\* Recursion.  main prints fact(n); fact is method 2, named by constant
\* pool entry 2:
\*    0 iload_0; 1 iconst_1; 2 if_icmpgt +5; 5 iconst_1; 6 ireturn;
\*    7 iload_0; 8 iload_0; 9 iconst_1; 10 isub; 11 invokestatic #2;
\*   14 imul; 15 ireturn
FactCode ==
    <<i_iload_0, i_iconst_0 + 1, i_if_icmpgt, 0, 5, i_iconst_0 + 1, i_ireturn,
      i_iload_0, i_iload_0, i_iconst_0 + 1, i_isub, i_invokestatic, 0, 2,
      i_imul, i_ireturn>>
FactClass(n) ==
    ClassFile(<<IntegerInfo(n), MethodRef(2)>>,
              <<Meth(<<i_ldc, 1, i_invokestatic, 0, 2>> \o Println \o <<i_return>>,
                     1, 1, 1),
                Meth(FactCode, 3, 1, 1)>>)
FactClasses == {FactClass(n) : n \in 0..MaxFact}

\* A constant pool of 128 method references, so that the indices 1, 127 and
\* 128 (operand bytes 0x00 0x80) all name method 2, which returns at once.
WideIndexes == {1, 127, 128}
WideIndexClasses ==
    {ClassFile([j \in 1..128 |-> MethodRef(2)],
               <<Meth(<<i_invokestatic, index \div 256, index % 256, i_return>>, 1, 1, 1),
                 Meth(<<i_return>>, 1, 1, 0)>>) :
        index \in WideIndexes}

\* A goto at address 1 whose operand bytes 0x00 0xFF encode the offset +255.
LoopClasses ==
    {ClassFile(<<>>, <<Meth(<<i_nop, i_goto, 0, 255, i_return>>, 1, 1, 1)>>)}

Classes ==
    LoopClasses \cup WideIndexClasses \cup FactClasses \cup ArithClasses \cup NegClasses \cup GotoClasses \cup IfZeroClasses
        \cup IfCmpClasses \cup LocalsClasses \cup SipushClasses
        \cup ShortFormClasses \cup ArrayClasses \cup CallClasses \cup OddClasses

(***************************************************************************)
(* main() up to its call of execute(), and the next-state relation.        *)
(***************************************************************************)
\* heap_init(); int32_t locals[max_locals]; memset(locals, 0, ...);
\* execute(main_method, locals, class, heap) has allocated its stack.
Init ==
    /\ class \in Classes
    /\ frames = <<NewFrame(class, MainMethod,
                           [i \in 0..(class.methods[MainMethod].max_locals - 1) |-> 0],
                           1)>>
    /\ heap = <<>>
    /\ out = <<>>
    /\ ret = NoRet
    /\ status = "running"
    /\ blocks = <<0>>
    /\ prev = [step |-> "init", op |-> -1, frames |-> <<>>, heap |-> <<>>,
               out |-> <<>>, ret |-> NoRet, blocks |-> <<>>]

Next ==
    \/ Bipush \/ Iadd \/ Return \/ Getstatic \/ Invokevirtual \/ Iconst
    \/ Sipush \/ Isub \/ Imul \/ Idiv \/ Irem \/ Ineg \/ Ishl \/ Ishr \/ Iushr
    \/ Iand \/ Ior \/ Ixor \/ Iload \/ Iload_n \/ Istore \/ Istore_n \/ Iinc
    \/ Ldc \/ Ifeq \/ Ifne \/ Iflt \/ Ifge \/ Ifgt \/ Ifle \/ If_icmpeq
    \/ If_icmpne \/ If_icmplt \/ If_icmpge \/ If_icmpgt \/ If_icmple \/ Goto
    \/ Ireturn \/ Invokestatic \/ InvokestaticReturn \/ Nop \/ Dup \/ Newarray
    \/ Arraylength \/ Areturn \/ Iastore \/ Iaload \/ Aload \/ Astore
    \/ Aload_n \/ Astore_n \/ UnknownOpcode \/ LoopExit \/ MainReturn

Spec == Init /\ [][Next]_vars

\* The process runs: a step that is possible is eventually taken.
FairSpec == Spec /\ WF_vars(Next)

(***************************************************************************)
(* Properties.  They read the step taken last (prev) against the state it  *)
(* led to.                                                                 *)
(***************************************************************************)
\* The frame that ran the last step, as it was before the step.
PrevTop == prev.frames[Len(prev.frames)]
PrevCode == class.methods[PrevTop.method].code
\* The last step was the dispatch of opcode op.
Dispatched(op) == prev.step = "dispatch" /\ prev.op = op
DispatchedAny(ops) == prev.step = "dispatch" /\ prev.op \in ops
\* Operand byte k of the instruction dispatched last.
PrevByte(k) == PrevCode[PrevTop.pc + k + 1]
\* The last step found at least n operands on a stack that has room for them.
PrevHeight == PrevTop.stack_idx
PrevHas(n) ==
    /\ PrevHeight >= n
    /\ PrevHeight <= class.methods[PrevTop.method].max_stack
\* Operand i from the top (1 is the top) of the stack the last step found.
PrevOperand(i) == PrevTop.operand_stack[PrevHeight - i]
\* The top of the running frame's stack.
TopValue == Top.operand_stack[Top.stack_idx - 1]
\* The last step went on in the same frame.
WentOn == status = "running" /\ Len(frames) = Len(prev.frames) /\ ret = NoRet

BranchOpcodes == {i_goto} \cup IfZeroOpcodes \cup IfCmpOpcodes
\* Whether the branch dispatched last was to be taken: the predicate of the
\* opcode on (a, 0), or on (a, b) with b the top and a the value below it.
Compare(k, a, b) ==
    CASE k = 0 -> a = b
      [] k = 1 -> a # b
      [] k = 2 -> a < b
      [] k = 3 -> a >= b
      [] k = 4 -> a > b
      [] k = 5 -> a <= b
BranchHolds ==
    IF prev.op = i_goto THEN TRUE
    ELSE IF prev.op \in IfZeroOpcodes
    THEN PrevHas(1) /\ Compare(prev.op - i_ifeq, PrevOperand(1), 0)
    ELSE PrevHas(2) /\ Compare(prev.op - i_if_icmpeq, PrevOperand(2), PrevOperand(1))

\* C1 (as claimed): a taken branch at address p with operand bytes b1 b2
\* continues at p + sign_extend_16((b1 << 8) | b2), both bytes unsigned.
C1_BranchTargetSignExtended16 ==
    (DispatchedAny(BranchOpcodes) /\ WentOn /\ BranchHolds)
        => Top.pc = PrevTop.pc + SignExtend16(PrevByte(1) * 256 + PrevByte(2))

\* C2 (as claimed): the dispatch of an opcode byte that the switch does not
\* support ends in the fatal abort state.
C2_UnknownOpcodeAborts ==
    (prev.step = "dispatch" /\ prev.op \notin SupportedOpcodes)
        => status = "aborted"

\* C3 (as claimed): idiv and irem abort exactly when the divisor b, the top
\* of the stack, is 0; otherwise they go on with a and b replaced by the
\* quotient or remainder of a by b (for a = INT_MIN and b = -1 the quotient
\* 2^31 wrapped to INT_MIN, and the remainder 0).
C3_DivisionAbortsExactlyOnZero ==
    (DispatchedAny({i_idiv, i_irem}) /\ PrevHas(2))
        => LET a == PrevOperand(2)
               b == PrevOperand(1)
           IN  IF b = 0
               THEN status = "aborted" /\ frames = prev.frames
               ELSE /\ WentOn
                    /\ Top.stack_idx = PrevHeight - 1
                    /\ TopValue =
                           IF a = MinInt /\ b = -1
                           THEN (IF prev.op = i_idiv THEN MinInt ELSE 0)
                           ELSE IF prev.op = i_idiv
                           THEN TruncDiv(a, b)
                           ELSE TruncRem(a, b)

\* The shift of a by a count s of 0..31, stated bit by bit on the unsigned
\* value: bit i of the result is bit i - s (left) or bit i + s (right) of a,
\* the vacated bits being 0, or the sign bit for the arithmetic right shift.
Bit32(a, i) == IF i >= 16 THEN Bit(Hi16(a), i - 16) ELSE Bit(Lo16(a), i)
IsShift(r, a, s, op) ==
    \A i \in 0..31 :
        Bit32(r, i) =
            IF op = i_ishl
            THEN (IF i - s >= 0 THEN Bit32(a, i - s) ELSE 0)
            ELSE IF i + s <= 31 THEN Bit32(a, i + s)
            ELSE IF op = i_ishr THEN Bit32(a, 31) ELSE 0

\* C4 (as claimed): ishl, ishr and iushr shift a by the low 5 bits of the
\* count b, whatever b is.
C4_ShiftUsesLowFiveBits ==
    (DispatchedAny({i_ishl, i_ishr, i_iushr}) /\ PrevHas(2))
        => /\ WentOn
           /\ Top.stack_idx = PrevHeight - 1
           /\ IsShift(TopValue, PrevOperand(2), PrevOperand(1) % 32, prev.op)

\* x reduced mod 2^32 and read as signed, for the sum, the difference and
\* the product of two int32_t: the exact result where it fits, and else the
\* exact result moved by 2^32 (written so that no intermediate leaves
\* MinInt..MaxInt).
WrappedSum(a, b) ==
    IF a >= 0 /\ b >= 0 /\ a > MaxInt - b THEN (a + MinInt) + (b + MinInt)
    ELSE IF a < 0 /\ b < 0 /\ a < MinInt - b THEN (a - MinInt) + (b - MinInt)
    ELSE a + b
WrappedDifference(a, b) ==
    IF a >= 0 /\ b < 0 /\ a > MaxInt + b THEN (a + MinInt) + (MinInt - b)
    ELSE IF a < 0 /\ b > 0 /\ a < MinInt + b THEN (a - MinInt) + ((MaxInt - b) + 1)
    ELSE a - b
\* a * 2^i wrapped, for 0 <= i <= 31: the low 31 - i bits of a moved up by
\* i places, and bit 31 - i of a as the sign.
WrappedDoubling(a, i) ==
    IF i = 0 THEN a
    ELSE IF i = 31 THEN (IF a % 2 = 1 THEN MinInt ELSE 0)
    ELSE ((a % Pow2(31 - i)) * Pow2(i))
            + (IF (a \div Pow2(31 - i)) % 2 = 1 THEN MinInt ELSE 0)
\* The product as the wrapped sum of a * 2^i over the bits i set in b (b
\* read as unsigned), the 32 terms added pairwise.
WrappedProduct(a, b) ==
    LET t0 == [i \in 0..31 |-> IF Bit32(b, i) = 1 THEN WrappedDoubling(a, i) ELSE 0]
        t1 == [i \in 0..15 |-> WrappedSum(t0[2 * i], t0[2 * i + 1])]
        t2 == [i \in 0..7 |-> WrappedSum(t1[2 * i], t1[2 * i + 1])]
        t3 == [i \in 0..3 |-> WrappedSum(t2[2 * i], t2[2 * i + 1])]
        t4 == [i \in 0..1 |-> WrappedSum(t3[2 * i], t3[2 * i + 1])]
    IN  WrappedSum(t4[0], t4[1])

\* C5: iadd, isub, imul and ineg wrap in two's complement: with a the value
\* below the top and b the top, a and b are replaced by (a + b), (a - b),
\* (a * b) mod 2^32 read as signed, and ineg replaces the top a by (-a)
\* mod 2^32; isub computes a - b, not b - a.
C5_ArithmeticWraps ==
    /\ (DispatchedAny({i_iadd, i_isub, i_imul}) /\ PrevHas(2))
          => /\ WentOn
             /\ Top.stack_idx = PrevHeight - 1
             /\ Top.pc = PrevTop.pc + 1
             /\ TopValue =
                    CASE prev.op = i_iadd -> WrappedSum(PrevOperand(2), PrevOperand(1))
                      [] prev.op = i_isub -> WrappedDifference(PrevOperand(2), PrevOperand(1))
                      [] prev.op = i_imul -> WrappedProduct(PrevOperand(2), PrevOperand(1))
    /\ (Dispatched(i_ineg) /\ PrevHas(1))
          => /\ WentOn
             /\ Top.stack_idx = PrevHeight
             /\ Top.pc = PrevTop.pc + 1
             /\ TopValue = WrappedDifference(0, PrevOperand(1))

\* C5's case: an isub whose difference left the int32_t range (INT_MIN - 1)
\* has been executed and has left INT_MAX.
C5_Witness ==
    /\ Dispatched(i_isub)
    /\ PrevHas(2)
    /\ PrevOperand(2) = MinInt
    /\ PrevOperand(1) = 1
    /\ WentOn
    /\ TopValue = MaxInt

\* The number of elements the block of an array was allocated for (the block
\* holds one slot more, slot 0).
AllocatedLength(array) == Cardinality(DOMAIN array) - 1
\* The arrays on the heap, by their place in it (reference + 1).
Arrays == 1..Len(heap)

\* C6 (as claimed): an array created by newarray with length n keeps that
\* length: slot 0, which arraylength reads, is n in every later state,
\* whatever was stored with iastore at whatever index; and an element that
\* no iastore has targeted reads 0 (a new array holds zeros, and an element
\* changes only in an iastore on that array at that index).
C6_ArrayLengthStable ==
    /\ \A r \in Arrays : heap[r][0] = AllocatedLength(heap[r])
    /\ (Dispatched(i_arraylength) /\ PrevHas(1) /\ IsRef(prev.heap, PrevOperand(1))
            /\ WentOn)
          => TopValue = AllocatedLength(heap_get(heap, PrevOperand(1)))
    /\ \A r \in Arrays : \A i \in 1..AllocatedLength(heap[r]) :
          IF r > Len(prev.heap)
          THEN heap[r][i] = 0
          ELSE heap[r][i] # prev.heap[r][i]
                  => /\ Dispatched(i_iastore)
                     /\ PrevOperand(3) = r - 1
                     /\ PrevOperand(2) = i - 1

\* An index of the array at reference ref in heap h: 0 <= index < length.
IsElement(h, ref, index) ==
    /\ IsRef(h, ref)
    /\ index >= 0
    /\ index < AllocatedLength(h[ref + 1])

\* C7: for a reference ref and an index with 0 <= index < length, iastore
\* on [.., ref, index, value] pops three values, makes element index of the
\* array value and leaves every other slot of every array as it was; iaload
\* on [.., ref, index] pops two values and pushes the element, the heap
\* unchanged; so a program that stores value at (ref, index) and then loads
\* from (ref, index) gets value.
C7_StoreLoadRoundTrip ==
    /\ (Dispatched(i_iastore) /\ PrevHas(3)
            /\ IsElement(prev.heap, PrevOperand(3), PrevOperand(2)))
          => /\ WentOn
             /\ Top.stack_idx = PrevHeight - 3
             /\ Len(heap) = Len(prev.heap)
             /\ \A r \in Arrays :
                   /\ DOMAIN heap[r] = DOMAIN prev.heap[r]
                   /\ \A slot \in DOMAIN heap[r] :
                         heap[r][slot] =
                             IF r = PrevOperand(3) + 1 /\ slot = PrevOperand(2) + 1
                             THEN PrevOperand(1)
                             ELSE prev.heap[r][slot]
    /\ (Dispatched(i_iaload) /\ PrevHas(2)
            /\ IsElement(prev.heap, PrevOperand(2), PrevOperand(1)))
          => /\ WentOn
             /\ Top.stack_idx = PrevHeight - 1
             /\ TopValue = prev.heap[PrevOperand(2) + 1][PrevOperand(1) + 1]
             /\ heap = prev.heap
    /\ (class \in ArrayClasses /\ out # <<>>
            /\ class.constant_pool[1] = class.constant_pool[3]
            /\ class.constant_pool[1].bytes >= 0
            /\ class.constant_pool[1].bytes < class.methods[MainMethod].code[2])
          => out[1] = class.constant_pool[2].bytes

\* C7's case: INT_MIN was stored at index 1 of an array of length 2 and an
\* iaload at index 1 of that array has pushed it.
C7_Witness ==
    /\ class \in ArrayClasses
    /\ class.constant_pool[1].bytes = 1
    /\ class.constant_pool[2].bytes = MinInt
    /\ Dispatched(i_iaload)
    /\ PrevHas(2)
    /\ PrevOperand(1) = 1
    /\ AllocatedLength(heap_get(heap, PrevOperand(2))) = 2
    /\ WentOn
    /\ TopValue = MinInt

\* The last step was the call part of an invokestatic: a callee frame was
\* pushed on the caller's.
Called == Dispatched(i_invokestatic) /\ Len(frames) = Len(prev.frames) + 1
\* The caller of the running frame, and the callee's number of parameters.
Caller == frames[Len(frames) - 1]
CalleeParams == class.methods[Top.method].num_params
\* The last step was the return of a callee into its invokestatic.
Resumed == prev.step = "resume" /\ status = "running"

\* C8: invokestatic of a callee with k parameters lowers the caller's stack
\* height by k and keeps the caller's pc while the callee runs (no step of
\* the callee touches the frames below it); return and the end of the code
\* hand back no value, ireturn and areturn hand back the popped top; when the
\* callee has returned, the caller's height is the lowered one for a void
\* return and one more for a value, which is then the top, and the caller's
\* pc has advanced by 3.
C8_InvokestaticCallerStack ==
    /\ Called
          => /\ status = "running"
             /\ Caller = [PrevTop EXCEPT !.stack_idx = PrevHeight - CalleeParams]
    /\ \A i \in 1..(Len(prev.frames) - 1) :
          i <= Len(frames) /\ frames[i] = prev.frames[i]
    /\ (DispatchedAny({i_ireturn, i_areturn}) /\ PrevHas(1) /\ status = "running")
          => /\ ret = Value(PrevOperand(1))
             /\ frames = SubSeq(prev.frames, 1, Len(prev.frames) - 1)
    /\ ((Dispatched(i_return) \/ prev.step = "exit") /\ status = "running")
          => /\ ret = Void
             /\ frames = SubSeq(prev.frames, 1, Len(prev.frames) - 1)
    /\ Resumed
          => /\ Len(frames) = Len(prev.frames)
             /\ ret = NoRet
             /\ Top.pc = PrevTop.pc + 3
             /\ Code(Top)[PrevTop.pc + 1] = i_invokestatic
             /\ IF prev.ret.has_value
                THEN Top.stack_idx = PrevHeight + 1 /\ TopValue = prev.ret.value
                ELSE Top.stack_idx = PrevHeight
                        /\ Top.operand_stack = PrevTop.operand_stack

\* C8's case: main, which pushed 9 and the arguments 5 and -1, is resumed by
\* a callee of two parameters that returned 5 - (-1): its stack holds 9 and
\* above it 6.
C8_Witness ==
    /\ Resumed
    /\ Len(frames) = 1
    /\ class.methods[2].num_params = 2
    /\ class.constant_pool[1].bytes = 5
    /\ class.constant_pool[2].bytes = -1
    /\ prev.ret = Value(6)
    /\ Top.stack_idx = 2
    /\ TopValue = 6
    /\ Top.operand_stack[0] = 9

LiveBlocks == {frames[i].stack_block : i \in 1..Len(frames)}

\* C10: blocks counts, for the operand stack of every activation started,
\* how often it was released.  The stack of an activation that has not
\* returned is not released and is its own; the stack of every activation
\* that has returned, by whichever exit, was released exactly once; and the
\* frame that runs a step (an opcode, or the resumption after a call) has an
\* unreleased stack when the step starts; a release happens only in the
\* return of the activation that owns the stack.
C10_StackReleasedOnce ==
    /\ \A b \in 1..Len(blocks) : blocks[b] = IF b \in LiveBlocks THEN 0 ELSE 1
    /\ \A i, j \in 1..Len(frames) :
          frames[i].stack_block = frames[j].stack_block => i = j
    /\ LiveBlocks \subseteq 1..Len(blocks)
    /\ prev.step \in {"dispatch", "resume", "exit"}
          => prev.blocks[PrevTop.stack_block] = 0
    /\ \A b \in 1..Len(prev.blocks) :
          blocks[b] # prev.blocks[b]
              => /\ DispatchedAny({i_return, i_ireturn, i_areturn})
                        \/ prev.step = "exit"
                 /\ b = PrevTop.stack_block
                 /\ Len(frames) = Len(prev.frames) - 1

\* C10's case: a chain of three nested activations (main, a callee, the
\* callee's callee) has returned to main's caller, and each of the three
\* operand stacks was released once.
C10_Witness ==
    /\ status = "exited"
    /\ frames = <<>>
    /\ blocks = <<1, 1, 1>>


\* How many operands an opcode takes from the operand stack and how many
\* values it leaves there (invokestatic, whose count is the callee's, apart).
LoadOpcodes ==
    {i_bipush, i_sipush, i_ldc, i_iload, i_aload} \cup (i_iconst_m1..i_iconst_5)
        \cup (i_iload_0..i_iload_3) \cup (i_aload_0..i_aload_3)
StoreOpcodes ==
    {i_istore, i_astore} \cup (i_istore_0..i_istore_3) \cup (i_astore_0..i_astore_3)
Pops(op) ==
    IF op \in BinaryOpcodes \cup IfCmpOpcodes \cup {i_iaload} THEN 2
    ELSE IF op = i_iastore THEN 3
    ELSE IF op \in StoreOpcodes \cup IfZeroOpcodes
                    \cup {i_ineg, i_ireturn, i_areturn, i_invokevirtual, i_dup,
                          i_newarray, i_arraylength} THEN 1
    ELSE 0
Pushes(op) ==
    IF op = i_dup THEN 2
    ELSE IF op \in LoadOpcodes \cup BinaryOpcodes
                    \cup {i_ineg, i_newarray, i_arraylength, i_iaload} THEN 1
    ELSE 0
\* The opcode dispatched last found too few operands, or no room for what
\* it pushes.
OutOfStack ==
    /\ prev.step = "dispatch"
    /\ prev.op \in SupportedOpcodes \ {i_invokestatic}
    /\ \/ PrevHeight < Pops(prev.op)
       \/ PrevHeight - Pops(prev.op) + Pushes(prev.op)
              > class.methods[PrevTop.method].max_stack

\* C11 (as claimed): in every frame 0 <= stack_idx <= max_stack, and an
\* opcode that would pop from an empty operand stack or push onto a full one
\* ends in the fatal abort state.
C11_StackWithinBounds ==
    /\ \A i \in 1..Len(frames) :
          /\ frames[i].stack_idx >= 0
          /\ frames[i].stack_idx <= Method(frames[i]).max_stack
    /\ OutOfStack => status = "aborted"

\* The frame that ran the last step had its pc inside its code.
PrevInCode == PrevTop.pc >= 0 /\ PrevTop.pc < Len(PrevCode)

\* C12: an activation whose pc is at or beyond code_length (by advancing
\* past the last instruction or by a branch) dispatches nothing more: the
\* step it takes is the exit of the loop, which returns void, whatever its
\* operand stack holds, and prints and stores nothing; and no other state
\* takes that exit.
C12_FallOffEndReturnsVoid ==
    /\ prev.step \in {"dispatch", "exit"}
          => (prev.step = "exit" <=> ~PrevInCode)
    /\ prev.step = "exit"
          => /\ ret = Void
             /\ status = "running"
             /\ frames = SubSeq(prev.frames, 1, Len(prev.frames) - 1)
             /\ out = prev.out
             /\ heap = prev.heap

\* C12's case: a callee ran off the end of its code with a value left on
\* its operand stack, and has returned void to its caller.
C12_Witness ==
    /\ prev.step = "exit"
    /\ Len(prev.frames) = 2
    /\ PrevTop.pc = Len(PrevCode)
    /\ PrevHeight = 1
    /\ ret = Void
    /\ Len(frames) = 1

\* A byte and a 16-bit value read as signed.
Signed8(b) == IF b >= 128 THEN b - 256 ELSE b
Signed16(x) == IF x >= 32768 THEN x - 65536 ELSE x
\* The instruction dispatched last has its k operand bytes inside the code,
\* and its frame has room for one more operand.
PrevHasBytes(k) == PrevTop.pc + k < Len(PrevCode)
PrevHasRoom == PrevHas(0) /\ PrevHeight < class.methods[PrevTop.method].max_stack

\* C13: bipush b pushes b read as a signed 8-bit value; sipush b1 b2 pushes
\* (b1 << 8) | b2 read as a signed 16-bit value; iinc n c adds c read as a
\* signed 8-bit value to locals[n] (wrapping) and leaves the operand stack and
\* the other locals as they were.
C13_ImmediatesSignExtended ==
    /\ (Dispatched(i_bipush) /\ PrevHasBytes(1) /\ PrevHasRoom)
          => /\ WentOn
             /\ Top.stack_idx = PrevHeight + 1
             /\ TopValue = Signed8(PrevByte(1))
    /\ (Dispatched(i_sipush) /\ PrevHasBytes(2) /\ PrevHasRoom)
          => /\ WentOn
             /\ Top.stack_idx = PrevHeight + 1
             /\ TopValue = Signed16(PrevByte(1) * 256 + PrevByte(2))
    /\ (Dispatched(i_iinc) /\ PrevHasBytes(2)
            /\ PrevByte(1) < class.methods[PrevTop.method].max_locals)
          => /\ WentOn
             /\ Top.stack_idx = PrevHeight
             /\ Top.operand_stack = PrevTop.operand_stack
             /\ Top.locals =
                    [PrevTop.locals EXCEPT
                        ![PrevByte(1)] = WrappedSum(@, Signed8(PrevByte(2)))]

\* C13's case: sipush 0x00 0x80 has pushed 128.
C13_Witness ==
    /\ Dispatched(i_sipush)
    /\ PrevByte(1) = 0
    /\ PrevByte(2) = 128
    /\ WentOn
    /\ TopValue = 128

\* n! for n of 0..MaxFact + 1.
Factorial(n) ==
    LET f[i \in 0..(MaxFact + 1)] == IF i <= 1 THEN 1 ELSE i * f[i - 1]
    IN  f[IF n <= 1 THEN 1 ELSE n]
\* The argument main gives to fact.
FactArgument == class.constant_pool[1].bytes

\* C14: for main printing fact(n), fact the recursive factorial called
\* through invokestatic: the run neither aborts nor leaves its blocks; the
\* activations of fact are nested with their own locals, activation j (main's
\* callee is the first) holding n - j + 1; each ireturn hands the factorial
\* of its own argument to the frame below it, where it becomes the top of
\* the operand stack of that immediate caller; and main prints exactly n!.
C14_FactorialPrinted ==
    class \in FactClasses
        => /\ status \in {"running", "exited"}
           /\ \A i \in 2..Len(frames) :
                 /\ frames[i].method = 2
                 /\ frames[i].locals[0] = FactArgument - (i - 2)
           /\ Dispatched(i_ireturn)
                 => /\ ret = Value(Factorial(PrevTop.locals[0]))
                    /\ frames = SubSeq(prev.frames, 1, Len(prev.frames) - 1)
           /\ Resumed
                 => /\ TopValue = prev.ret.value
                    /\ Len(frames) = Len(prev.frames)
                    /\ Len(frames) > 1
                          => TopValue = Factorial(Top.locals[0] - 1)
           /\ out # <<>> => out = <<Factorial(FactArgument)>>
           /\ status = "exited" => out # <<>>

\* C14's case: the run for n = 6 has ended and has printed 720.
C14_Witness ==
    /\ class = FactClass(6)
    /\ status = "exited"
    /\ out = <<720>>

\* C15 (as claimed): at the one overflowing input, a = -2^31 and b = -1,
\* idiv does not abort and pushes -2^31, and irem does not abort and pushes
\* 0.
C15_DivisionOverflowWraps ==
    (DispatchedAny({i_idiv, i_irem}) /\ PrevHas(2)
        /\ PrevOperand(2) = MinInt /\ PrevOperand(1) = -1)
        => /\ WentOn
           /\ Top.stack_idx = PrevHeight - 1
           /\ TopValue = IF prev.op = i_idiv THEN MinInt ELSE 0

\* The number of operands of the conditional branch dispatched last.
BranchOperands == IF prev.op \in IfZeroOpcodes THEN 1 ELSE 2

\* C16: a conditional branch that finds its operands (one for ifeq ... ifle,
\* two for if_icmp*) pops them whether or not it branches, changing nothing
\* else of the frame but pc; when the opcode's signed comparison holds on
\* (a, 0) resp. (a, b), b the top and a below it, pc moves by the decoded
\* offset (b1 * 256 + b2 for operand bytes below 0x80), and when it does not
\* hold pc advances by exactly 3.
C16_ConditionalBranchPops ==
    (DispatchedAny(IfZeroOpcodes \cup IfCmpOpcodes) /\ PrevHas(BranchOperands)
        /\ (BranchHolds => PrevHasBytes(2)))
        => /\ WentOn
           /\ Top = [PrevTop EXCEPT !.stack_idx = PrevHeight - BranchOperands,
                                    !.pc = Top.pc]
           /\ IF BranchHolds
              THEN /\ Top.pc = PrevTop.pc + BranchOffset(PrevByte(1), PrevByte(2))
                   /\ (PrevByte(1) < 128 /\ PrevByte(2) < 128)
                         => Top.pc = PrevTop.pc + PrevByte(1) * 256 + PrevByte(2)
              ELSE Top.pc = PrevTop.pc + 3

\* C16's case: if_icmplt on a = INT_MIN and b = 0 with offset 8 has popped
\* both and branched.
C16_Witness ==
    /\ Dispatched(i_if_icmplt)
    /\ PrevHas(2)
    /\ PrevOperand(2) = MinInt
    /\ PrevOperand(1) = 0
    /\ PrevByte(1) = 0
    /\ PrevByte(2) = 8
    /\ WentOn
    /\ Top.pc = PrevTop.pc + 8
    /\ Top.stack_idx = PrevHeight - 2

\* The encoded length of the instruction with opcode op.
Length(op) ==
    IF op \in {i_bipush, i_ldc, i_iload, i_istore, i_aload, i_astore, i_newarray}
    THEN 2
    ELSE IF op \in {i_sipush, i_iinc, i_getstatic, i_invokevirtual, i_invokestatic}
                    \cup BranchOpcodes
    THEN 3
    ELSE 1
\* The addresses at which the instructions of code start, read from address
\* 0 on, each instruction followed by the next.
InstructionStarts(code) ==
    LET start[i \in 0..Len(code)] ==
            IF i = 0 THEN 0
            ELSE LET q == start[i - 1]
                 IN  IF q >= Len(code) THEN q ELSE q + Length(code[q + 1])
    IN  {start[i] : i \in 0..Len(code)}
ReturnOpcodes == {i_return, i_ireturn, i_areturn}

\* C17: an opcode that is no branch, no return and no invokestatic and that
\* completes advances pc by exactly its encoded length; the return of a
\* callee into invokestatic advances the caller's pc by 3, and so does a
\* conditional branch that is not taken; hence in the programs with calls and
\* recursion, whose branch targets are instruction starts, every dispatch is
\* at the first byte of an instruction.
C17_PcAtInstructionStarts ==
    /\ (prev.step = "dispatch" /\ WentOn
            /\ prev.op \in SupportedOpcodes
                              \ (BranchOpcodes \cup ReturnOpcodes \cup {i_invokestatic}))
          => Top.pc = PrevTop.pc + Length(prev.op)
    /\ Resumed => Top.pc = PrevTop.pc + 3
    /\ (DispatchedAny(IfZeroOpcodes \cup IfCmpOpcodes) /\ WentOn /\ ~BranchHolds)
          => Top.pc = PrevTop.pc + 3
    /\ (class \in FactClasses \cup CallClasses /\ prev.step = "dispatch")
          => PrevTop.pc \in InstructionStarts(PrevCode)

\* C17's case: in the nested call program the callee of two parameters,
\* whose invokestatic at address 2 follows two one-byte instructions, is
\* resumed at address 5, the start of its ireturn.
C17_Witness ==
    /\ class \in CallClasses
    /\ Resumed
    /\ Len(frames) = 2
    /\ PrevTop.pc = 2
    /\ Top.pc = 5
    /\ Code(Top)[Top.pc + 1] = i_ireturn
    /\ Top.pc \in InstructionStarts(Code(Top))

\* C18: a callee cannot change its caller's frame.  The call leaves the
\* caller's locals, operand stack entries and pc as they were (only its
\* height drops by the arguments); no step touches a frame below the one that
\* runs it; and the return into the caller leaves its locals and every
\* operand stack entry below the returned value as they were.  So in the call
\* programs main, resumed, still has its locals and the 9 it pushed under the
\* arguments.
C18_CallerFrameIsolated ==
    /\ Called
          => /\ Caller.locals = PrevTop.locals
             /\ Caller.operand_stack = PrevTop.operand_stack
             /\ Caller.pc = PrevTop.pc
             /\ Caller.method = PrevTop.method
    /\ \A i \in 1..(Len(prev.frames) - 1) :
          i <= Len(frames) /\ frames[i] = prev.frames[i]
    /\ Resumed
          => /\ Top.locals = PrevTop.locals
             /\ Top.method = PrevTop.method
             /\ \A i \in DOMAIN Top.operand_stack :
                   i # PrevHeight => Top.operand_stack[i] = PrevTop.operand_stack[i]
    /\ (class \in CallClasses /\ Resumed /\ Len(frames) = 1)
          => /\ Top.locals = (0 :> 0)
             /\ Top.operand_stack[0] = 9

\* C18's case: a void callee without parameters has printed its local 0,
\* stored 77 into it and returned; main still has 0 in its own local 0 and
\* the 9 on its operand stack.
C18_Witness ==
    /\ class \in CallClasses
    /\ class.methods[2].num_params = 0
    /\ Resumed
    /\ Len(frames) = 1
    /\ prev.ret = Void
    /\ out = <<0>>
    /\ Top.locals[0] = 0
    /\ Top.stack_idx = 1
    /\ Top.operand_stack[0] = 9

\* The constant pool index that the operand bytes of the invokestatic
\* dispatched last encode, both bytes read as unsigned.
UnsignedIndex == PrevByte(1) * 256 + PrevByte(2)

\* C19 (as claimed): invokestatic b1 b2 enters the method that the constant
\* pool names at index (b1 << 8) | b2, both bytes unsigned, for every byte
\* pair, those with b2 >= 0x80 included.
C19_CalleeIndexUnsigned ==
    (Dispatched(i_invokestatic) /\ PrevHasBytes(2)
        /\ UnsignedIndex \in 1..Len(class.constant_pool)
        /\ class.constant_pool[UnsignedIndex].tag = "MethodRef"
        /\ PrevHas(class.methods[class.constant_pool[UnsignedIndex].method].num_params))
        => /\ status = "running"
           /\ Called
           /\ Top.method = class.constant_pool[UnsignedIndex].method

\* The code consists of supported opcodes, none of them invokestatic, and
\* every branch instruction in it encodes a strictly positive signed 16-bit
\* offset.
ForwardOnly(code) ==
    \A p \in InstructionStarts(code) :
        p < Len(code)
            => /\ code[p + 1] \in SupportedOpcodes \ {i_invokestatic}
               /\ code[p + 1] \in BranchOpcodes
                     => /\ p + 2 < Len(code)
                        /\ Signed16(code[p + 2] * 256 + code[p + 3]) > 0
\* The programs made of one method with one branch instruction.
BranchPrograms == GotoClasses \cup IfZeroClasses \cup IfCmpClasses \cup LoopClasses

\* C20 (as claimed): the run of a method whose code consists only of
\* supported opcodes, without invokestatic, and whose branches all encode a
\* strictly positive offset, ends: execute returns or aborts.
C20_ForwardBranchesTerminate ==
    (class \in BranchPrograms /\ ForwardOnly(class.methods[MainMethod].code))
        => <>(status # "running")

============================================================================
